---- MODULE Spec2Model ----
(***************************************************************************)
(* DevTrack: the GitHub synchronisation engine.                            *)
(*                                                                         *)
(*   src/src/github_client.py  GitHubClient  (_make_request, get_commits)  *)
(*   src/src/services.py       GitHubSyncService (sync_user_data, ...)     *)
(*   src/src/models.py         User, Repository, Commit tables             *)
(*   src/src/database.py       SessionLocal (autoflush=False)              *)
(*   src/src/main.py           sync_github_data (POST /sync)               *)
(*                                                                         *)
(* Spec       sequential sync passes against a changing GitHub account     *)
(* SpecRetry  one call of GitHubClient._make_request                       *)
(***************************************************************************)
EXTENDS Integers, Sequences, FiniteSets, TLC

VARIABLES
    \* ---- GitHub (the external service) and the wall clock
    github_repos,     \* what GET /user/repos lists: a sequence of entries
    github_commits,   \* the commits that exist upstream: a set of positions of CommitPool
    now,              \* datetime.now(timezone.utc), in ticks
    \* ---- process configuration (os.getenv)
    env,              \* [username, token]
    \* ---- the database, committed rows only (a row's id is its position)
    users,            \* table users
    repositories,     \* table repositories
    commits,          \* table commits
    \* ---- one sync pass: position and the SQLAlchemy session's uncommitted work
    pc,               \* where sync_user_data stands
    session,          \* locals of the pass and the rows db.add() has staged
    outcome,          \* how the pass ended, with what it returned
    \* ---- history, read by the properties only
    before,           \* the database when the pass began
    previous,         \* the database a successful pass left, while GitHub is unchanged
    interrupted,      \* a pass was killed between the commits' commit and the watermark
    budget,           \* passes started and changes of GitHub so far
    configured,       \* the token the latest pass read from the environment
    \* ---- one call of GitHubClient._make_request
    request,
    \* ---- one call of GitHubClient._get_paginated
    paging,
    \* ---- GET /summary
    summaries,        \* table summaries
    reply,            \* what the latest GET /summary did and answered
    \* ---- two POST /sync requests served at once
    workers

vars == <<github_repos, github_commits, now, env, users, repositories, commits,
          pc, session, outcome, before, previous, interrupted, budget,
          configured, request, paging, summaries, reply, workers>>

github_vars == <<github_repos, github_commits>>
db_vars     == <<users, repositories, commits>>
hist_vars   == <<before, previous, interrupted, budget, configured>>
\* what the sync pass and _make_request never touch
other_vars  == <<paging, summaries, reply, workers>>

-----------------------------------------------------------------------------
(* Bounds of the model *)

\* the clock runs from 0 to MaxTime ticks
MaxTime == 2
\* GET /user/repos lists at most MaxListing repositories
MaxListing == 2
\* passes started in one behaviour
MaxPasses == 2
\* changes of the GitHub account in one behaviour
MaxChanges == 1

(* Program constants *)

\* nullable columns and Optional parameters hold None
Null == -1
\* _make_request(..., max_retries: int = 3)
max_retries == 3
\* len(token) <= 4 / token[-4:]
MaskKeep == 4
\* ticks of the clock in one second: strftime("%Y-%m-%dT%H:%M:%SZ") drops the rest
TicksPerSecond == 2

-----------------------------------------------------------------------------
(* Small helpers *)

RECURSIVE Pow2(_)
Pow2(n) == IF n = 0 THEN 1 ELSE 2 * Pow2(n - 1)

RECURSIVE SumSeq(_)
SumSeq(s) == IF s = <<>> THEN 0 ELSE Head(s) + SumSeq(Tail(s))

-----------------------------------------------------------------------------
(* GitHubClient._make_request: one HTTP call with retries                    *)

\* what one requests.get() can meet
Http4xx == {"http_401", "http_404"}
Http5xx == {"http_500"}
Failures == {"connection_error", "timeout"} \cup Http4xx \cup Http5xx
Outcomes == {"ok"} \cup Failures

\* requests.get() raises on transport errors; response.raise_for_status()
\* raises HTTPError on every 4xx and 5xx status
ExceptionOf(o) ==
    CASE o = "ok"               -> "none"
      [] o = "connection_error" -> "ConnectionError"
      [] o = "timeout"          -> "Timeout"
      [] OTHER                  -> "HTTPError"

\* a handler that lets the 4xx statuses through
Mutant_IsRequestException(o) == ExceptionOf(o) # "none" /\ o \notin Http4xx

\* except requests.exceptions.RequestException as e:
IsRequestException(o) ==
    ExceptionOf(o) \in {"ConnectionError", "Timeout", "HTTPError"}

\* a ceiling tested one attempt too late
Mutant_IsLastAttempt(attempt) == attempt = max_retries

\* if attempt == max_retries - 1:
IsLastAttempt(attempt) == attempt = max_retries - 1

\* a backoff that starts at 2 seconds
Mutant_Backoff(attempt) == Pow2(attempt + 1)

\* time.sleep(2 ** attempt)
Backoff(attempt) == Pow2(attempt)

NoRequest ==
    [attempt  |-> 0,        \* the loop variable of range(max_retries)
     seen     |-> <<>>,     \* what each requests.get() of this call met
     sent     |-> 0,        \* requests issued
     sleeps   |-> <<>>,     \* every time.sleep() of this call, in seconds
     status   |-> "running",
     page     |-> 0,        \* the page of a list endpoint the call asks for
     detail   |-> 0,        \* get_commit_details() calls of the visit, this one included
     response |-> 0,        \* the attempt whose response was returned
     error    |-> [kind |-> "none", cause |-> 0]]

\* requests.get() answers and raise_for_status() passes: return response
make_request_return ==
    /\ request.status = "running"
    /\ request.attempt < max_retries
    /\ request' = [request EXCEPT
           !.seen = Append(@, "ok"),
           !.sent = @ + 1,
           !.status = "returned",
           !.response = request.attempt + 1]
    /\ UNCHANGED <<github_vars, now, env, db_vars, pc, session, outcome, hist_vars, other_vars>>

\* a retry that starts the loop over: the attempt is never counted
Mutant_make_request_retry ==
    /\ request.status = "running"
    /\ request.attempt < max_retries
    /\ \E o \in Failures :
         /\ IsRequestException(o)
         /\ request' = [request EXCEPT
                !.seen = <<o>>,
                !.sent = 1,
                !.sleeps = <<Backoff(0)>>]
    /\ UNCHANGED <<github_vars, now, env, db_vars, pc, session, outcome, hist_vars, other_vars>>

\* the attempt fails, it is not the last one: sleep and go round the loop
make_request_retry ==
    /\ request.status = "running"
    /\ request.attempt < max_retries
    /\ \E o \in Failures :
         /\ IsRequestException(o)
         /\ ~IsLastAttempt(request.attempt)
         /\ request' = [request EXCEPT
                !.seen = Append(@, o),
                !.sent = @ + 1,
                !.sleeps = Append(@, Backoff(request.attempt)),
                !.attempt = @ + 1]
    /\ UNCHANGED <<github_vars, now, env, db_vars, pc, session, outcome, hist_vars, other_vars>>

\* the attempt fails and the handler gives up (RuntimeError ... from e), or the
\* exception is none the handler catches and leaves the call as it is
make_request_raise ==
    /\ request.status = "running"
    /\ request.attempt < max_retries
    /\ \E o \in Failures :
         /\ ~IsRequestException(o) \/ IsLastAttempt(request.attempt)
         /\ request' = [request EXCEPT
                !.seen = Append(@, o),
                !.sent = @ + 1,
                !.status = "raised",
                !.error = [kind  |-> IF IsRequestException(o)
                                       THEN "RuntimeError" ELSE ExceptionOf(o),
                           cause |-> request.attempt + 1]]
    /\ UNCHANGED <<github_vars, now, env, db_vars, pc, session, outcome, hist_vars, other_vars>>

-----------------------------------------------------------------------------
(* GitHub as the client sees it                                              *)

Me    == "me"
Other == "other"

\* a token of more than MaskKeep characters
Token == <<"g", "h", "p", "1", "2", "3">>

\* the repositories GET /user/repos can list, in the order it lists them (by
\* full name); the listing spans every owner the user can reach, so two of them
\* can have the same name
RepoPool ==
    << [name |-> "a", url |-> "u1", language |-> "py"],
       [name |-> "a", url |-> "u2", language |-> "none"],
       [name |-> "b", url |-> "u3", language |-> "go"] >>

\* the listing of the repositories at the positions ids of RepoPool
Listing(ids) ==
    LET at == SelectSeq([i \in DOMAIN RepoPool |-> i], LAMBDA i : i \in ids)
    IN  [k \in DOMAIN at |-> RepoPool[at[k]]]

Listings ==
    {Listing(ids) : ids \in {x \in SUBSET DOMAIN RepoPool :
                                Cardinality(x) <= MaxListing}}

\* the commits that can exist upstream, in the order the server lists them
\* (newest first); one sha can be served by two repositories (a fork shares its
\* parent's commits), and not with the same data
CommitPool ==
    << [sha |-> "s2", repo |-> "a", author |-> Me, date |-> TicksPerSecond,
        message |-> "m2", files_changed |-> 2, additions |-> 5, deletions |-> 0],
       [sha |-> "s1", repo |-> "a", author |-> Me, date |-> 0,
        message |-> "m1", files_changed |-> 1, additions |-> 3, deletions |-> 1],
       [sha |-> "s1", repo |-> "b", author |-> Me, date |-> 0,
        message |-> "m1b", files_changed |-> 2, additions |-> 4, deletions |-> 2],
       [sha |-> "s3", repo |-> "a", author |-> Other, date |-> 0,
        message |-> "m3", files_changed |-> 1, additions |-> 1, deletions |-> 1] >>
PoolIds == 1..Len(CommitPool)

\* get_repositories(): the listing, each record cut down to the fields kept
get_repositories ==
    [i \in 1..Len(github_repos) |->
        [name     |-> github_repos[i].name,
         url      |-> github_repos[i].url,
         language |-> github_repos[i].language]]

\* a query that does not send the author parameter
Mutant_get_commits(repo_name, since, author) ==
    LET Listed(i) ==
            /\ i \in github_commits
            /\ CommitPool[i].repo = repo_name
            /\ (since # Null => CommitPool[i].date >= since)
        ids == SelectSeq([i \in PoolIds |-> i], Listed)
    IN  [k \in 1..Len(ids) |->
            [sha         |-> CommitPool[ids[k]].sha,
             message     |-> CommitPool[ids[k]].message,
             author_date |-> CommitPool[ids[k]].date]]

\* get_commits(repo_full_name, since, author): the server filters by the
\* "since" and "author" parameters when they are sent
get_commits(repo_name, since, author) ==
    LET Listed(i) ==
            /\ i \in github_commits
            /\ CommitPool[i].repo = repo_name
            /\ (author # "" => CommitPool[i].author = author)
            /\ (since # Null => CommitPool[i].date >= since)
        ids == SelectSeq([i \in PoolIds |-> i], Listed)
    IN  [k \in 1..Len(ids) |->
            [sha         |-> CommitPool[ids[k]].sha,
             message     |-> CommitPool[ids[k]].message,
             author_date |-> CommitPool[ids[k]].date]]

\* get_commit_details(repo_full_name, commit_sha)
get_commit_details(repo_name, commit_sha) ==
    LET c == CommitPool[CHOOSE i \in PoolIds :
                 CommitPool[i].repo = repo_name /\ CommitPool[i].sha = commit_sha]
    IN  [sha           |-> commit_sha,
         files_changed |-> c.files_changed,
         additions     |-> c.additions,
         deletions     |-> c.deletions]

-----------------------------------------------------------------------------
(* GitHubSyncService                                                         *)

Stars(n) == [i \in 1..n |-> "*"]

\* a mask without the case of the short token: "*" * (len - 4) is empty when
\* len <= 4 and token[-4:] is then the whole token
Mutant_mask_token(token) ==
    IF Len(token) <= MaskKeep
    THEN token
    ELSE Stars(Len(token) - MaskKeep)
            \o SubSeq(token, Len(token) - MaskKeep + 1, Len(token))

\* _mask_token(token)
mask_token(token) ==
    IF Len(token) <= MaskKeep
    THEN Stars(Len(token))
    ELSE Stars(Len(token) - MaskKeep)
            \o SubSeq(token, Len(token) - MaskKeep + 1, Len(token))

\* db.query(User).filter(User.github_username == username): the matching rows
UserIds(username) == {i \in DOMAIN users : users[i].github_username = username}

\* user.last_synced_at of the tracked account, None while there is no row
LastSyncedAt ==
    IF UserIds(env.username) = {} THEN Null
    ELSE users[CHOOSE i \in UserIds(env.username) : TRUE].last_synced_at

\* a cutoff taken from the clock instead of the stored watermark
Mutant_FormatSince(last_synced_at) == now - (now % TicksPerSecond)

\* since = user.last_synced_at.strftime("%Y-%m-%dT%H:%M:%SZ"): whole seconds
FormatSince(last_synced_at) ==
    IF last_synced_at = Null THEN Null
    ELSE last_synced_at - (last_synced_at % TicksPerSecond)

NoSession ==
    [user_id       |-> 0,
     repos_added   |-> 0,
     commits_added |-> 0,
     since         |-> Null,
     repos         |-> <<>>,    \* ids of the rows "for repo in repos" has left
     staged        |-> <<>>,    \* Commit rows db.add() holds, not yet flushed
     fetched       |-> {},      \* every sha get_commits() returned in this pass
     queries       |-> {},      \* every get_commits() call: repository and since
     detailed      |-> {},      \* every sha get_commit_details() was called for
     calls         |-> [get_repositories |-> 0, get_commits |-> 0,
                        get_commit_details |-> 0]]   \* calls of the client

NoOutcome ==
    [status |-> "none", repositories_synced |-> 0, commits_synced |-> 0,
     last_synced |-> Null]

NoBefore ==
    [last_synced_at |-> Null, repositories |-> <<>>, commits |-> <<>>,
     github_token |-> <<>>]

NoPrevious == [valid |-> FALSE, repositories |-> <<>>, commits |-> <<>>]

NotInterrupted == [flag |-> FALSE, since |-> Null]

\* the session is made with autoflush=False: a query sees committed rows only,
\* never the rows db.add() has staged in the same pass

\* a lookup that never finds a row
Mutant_RepoMatches(rows, user_id, name) == {}

\* db.query(Repository).filter(user_id == user.id, repo_name == name): the rows
\* that match, of which .first() returns one (no ORDER BY: whichever comes first)
RepoMatches(rows, user_id, name) ==
    {i \in DOMAIN rows : rows[i].user_id = user_id /\ rows[i].repo_name = name}

\* the loop of _sync_repositories over the listing: every result the choices of
\* .first() allow, as [rows: the table with its rows refreshed, staged: the new
\* rows, added: repos_added]
RECURSIVE ReconcileRepositories(_, _, _, _, _)
ReconcileRepositories(listing, user_id, rows, staged, added) ==
    IF listing = <<>>
    THEN {[rows |-> rows, staged |-> staged, added |-> added]}
    ELSE LET repo_data == Head(listing)
             existing == RepoMatches(rows, user_id, repo_data.name)
         IN  IF existing # {}
             THEN UNION {ReconcileRepositories(
                             Tail(listing), user_id,
                             [rows EXCEPT ![i].repo_url = repo_data.url,
                                          ![i].language = repo_data.language],
                             staged, added) : i \in existing}
             ELSE ReconcileRepositories(
                      Tail(listing), user_id, rows,
                      Append(staged, [user_id   |-> user_id,
                                      repo_name |-> repo_data.name,
                                      repo_url  |-> repo_data.url,
                                      language  |-> repo_data.language]),
                      added + 1)

\* an existence check that never finds a row
Mutant_CommitExists(table, sha) == FALSE

\* db.query(Commit).filter(Commit.commit_sha == sha).first(), over the committed
\* rows
CommitExists(table, sha) ==
    \E i \in DOMAIN table : table[i].commit_sha = sha

\* the loop of _sync_commits over one repository's listing: the rows staged
RECURSIVE ReconcileCommits(_, _, _, _)
ReconcileCommits(github_list, repo_id, repo_name, staged) ==
    IF github_list = <<>> THEN staged
    ELSE LET commit_data == Head(github_list)
             details == get_commit_details(repo_name, commit_data.sha)
         IN  ReconcileCommits(
                 Tail(github_list), repo_id, repo_name,
                 IF CommitExists(commits, commit_data.sha) THEN staged
                 ELSE Append(staged,
                        [repository_id |-> repo_id,
                         commit_sha    |-> commit_data.sha,
                         message       |-> commit_data.message,
                         author_date   |-> commit_data.author_date,
                         files_changed |-> details.files_changed,
                         additions     |-> details.additions,
                         deletions     |-> details.deletions]))

\* a table without the constraint
Mutant_UniqueShaOk(rows) == TRUE

\* commit_sha = Column(String, unique=True, ...): what the flush must satisfy
UniqueShaOk(rows) ==
    \A i, j \in DOMAIN rows : rows[i].commit_sha = rows[j].commit_sha => i = j

Snapshot ==
    [last_synced_at |-> LastSyncedAt, repositories |-> repositories,
     commits |-> commits,
     github_token |-> IF UserIds(env.username) = {} THEN <<>>
                      ELSE users[CHOOSE i \in UserIds(env.username) :
                                    TRUE].github_token]

\* a row that is born with a watermark
Mutant_NewUser(username, token) ==
    [github_username |-> username,
     github_token    |-> mask_token(token),
     last_synced_at  |-> now]

\* User(github_username=username, github_token=self._mask_token(token));
\* last_synced_at is nullable and has no default
NewUser(username, token) ==
    [github_username |-> username,
     github_token    |-> mask_token(token),
     last_synced_at  |-> Null]

\* sync_user_data, lines 55-76: read the configuration, get or create the user
sync_user_data_begin ==
    /\ pc = "idle"
    /\ budget.passes < MaxPasses
    /\ env.username # "" /\ env.token # <<>>
    /\ before' = Snapshot
    /\ configured' = env.token
    /\ LET found == UserIds(env.username)
       IN  IF found = {}
           THEN /\ users' = Append(users, NewUser(env.username, env.token))
                /\ session' = [NoSession EXCEPT !.user_id = Len(users) + 1]
           ELSE LET id == CHOOSE i \in found : TRUE
                IN  /\ users' = [users EXCEPT
                           ![id].github_token = mask_token(env.token)]
                    /\ session' = [NoSession EXCEPT !.user_id = id]
    /\ pc' = "repos"
    /\ budget' = [budget EXCEPT !.passes = @ + 1]
    /\ UNCHANGED <<github_vars, now, env, repositories, commits, outcome,
                   previous, interrupted, request, other_vars>>

\* a pass that gets or creates the user row before it looks at the configuration
Mutant_sync_config_error ==
    /\ pc = "idle"
    /\ budget.passes < MaxPasses
    /\ env.username = "" \/ env.token = <<>>
    /\ before' = Snapshot
    /\ users' = Append(users, NewUser(env.username, env.token))
    /\ outcome' = [NoOutcome EXCEPT !.status = "config_error"]
    /\ pc' = "done"
    /\ budget' = [budget EXCEPT !.passes = @ + 1]
    /\ UNCHANGED <<github_vars, now, env, repositories, commits, session,
                   previous, interrupted, configured, request, other_vars>>

\* GitHubSyncService(db) builds GitHubClient(), which raises ValueError when
\* GITHUB_TOKEN or GITHUB_USERNAME is unset or empty (sync_user_data, lines
\* 58-61, would raise the same); sync_github_data answers 400
sync_config_error ==
    /\ pc = "idle"
    /\ budget.passes < MaxPasses
    /\ env.username = "" \/ env.token = <<>>
    /\ before' = Snapshot
    /\ outcome' = [NoOutcome EXCEPT !.status = "config_error"]
    /\ pc' = "done"
    /\ budget' = [budget EXCEPT !.passes = @ + 1]
    /\ UNCHANGED <<github_vars, now, env, db_vars, session, previous,
                   interrupted, configured, request, other_vars>>

\* a mirroring pass: rows whose repository is no longer listed are deleted
Mutant_sync_repositories_prune ==
    /\ pc = "repos"
    /\ \E r \in ReconcileRepositories(get_repositories, session.user_id,
                                      repositories, <<>>, 0) :
         /\ repositories' = SelectSeq(r.rows \o r.staged,
                LAMBDA row : \E k \in DOMAIN get_repositories :
                                 get_repositories[k].name = row.repo_name)
         /\ session' = [session EXCEPT !.repos_added = r.added,
                                       !.calls.get_repositories = @ + 1]
    /\ pc' = "commits"
    /\ UNCHANGED <<github_vars, now, env, users, commits, outcome, hist_vars,
                   request, other_vars>>

\* _sync_repositories: fetch the listing, reconcile, db.commit()
sync_repositories ==
    /\ pc = "repos"
    /\ \E r \in ReconcileRepositories(get_repositories, session.user_id,
                                      repositories, <<>>, 0) :
         /\ repositories' = r.rows \o r.staged
         /\ session' = [session EXCEPT !.repos_added = r.added,
                                       !.calls.get_repositories = @ + 1]
    /\ pc' = "commits"
    /\ UNCHANGED <<github_vars, now, env, users, commits, outcome, hist_vars,
                   request, other_vars>>

\* a pass that never bounds the window
Mutant_sync_commits_begin ==
    /\ pc = "commits"
    /\ session' = [session EXCEPT
           !.repos = SelectSeq([i \in DOMAIN repositories |-> i],
                         LAMBDA i : repositories[i].user_id = session.user_id),
           !.since = Null]
    /\ pc' = "loop"
    /\ UNCHANGED <<github_vars, now, env, db_vars, outcome, hist_vars, request,
                   other_vars>>

\* _sync_commits, lines 170-177: the repositories to visit and the cutoff
sync_commits_begin ==
    /\ pc = "commits"
    /\ session' = [session EXCEPT
           !.repos = SelectSeq([i \in DOMAIN repositories |-> i],
                         LAMBDA i : repositories[i].user_id = session.user_id),
           !.since = FormatSince(users[session.user_id].last_synced_at)]
    /\ pc' = "loop"
    /\ UNCHANGED <<github_vars, now, env, db_vars, outcome, hist_vars, request,
                   other_vars>>

\* a loop that brings a stored commit up to date with what is listed now
Mutant_sync_commits_repo ==
    /\ pc = "loop"
    /\ session.repos # <<>>
    /\ LET repo_id == Head(session.repos)
           repo_name == repositories[repo_id].repo_name
           github_list == get_commits(repo_name, session.since,
                                      users[session.user_id].github_username)
           staged == ReconcileCommits(github_list, repo_id, repo_name,
                                      session.staged)
           Listed(sha) == {k \in DOMAIN github_list : github_list[k].sha = sha}
       IN  /\ session' = [session EXCEPT
                  !.repos = Tail(@),
                  !.staged = staged,
                  !.commits_added = @ + (Len(staged) - Len(session.staged)),
                  !.fetched = @ \cup {github_list[k].sha :
                                          k \in DOMAIN github_list},
                  !.queries = @ \cup {[repo_id |-> repo_id,
                                       since |-> session.since]},
                  !.detailed = @ \cup {staged[k].commit_sha :
                                k \in (Len(session.staged) + 1)..Len(staged)},
                  !.calls.get_commits = @ + 1,
                  !.calls.get_commit_details =
                      @ + (Len(staged) - Len(session.staged))]
           /\ commits' = [i \in DOMAIN commits |->
                  IF Listed(commits[i].commit_sha) = {} THEN commits[i]
                  ELSE [commits[i] EXCEPT
                          !.repository_id = repo_id,
                          !.message = github_list[
                              CHOOSE k \in Listed(commits[i].commit_sha) :
                                  TRUE].message]]
    /\ UNCHANGED <<github_vars, now, env, users, repositories, pc, outcome,
                   hist_vars, request, other_vars>>

\* _sync_commits, lines 179-214: one repository of "for repo in repos"
sync_commits_repo ==
    /\ pc = "loop"
    /\ session.repos # <<>>
    /\ LET repo_id == Head(session.repos)
           repo_name == repositories[repo_id].repo_name
           github_list == get_commits(repo_name, session.since,
                                      users[session.user_id].github_username)
           staged == ReconcileCommits(github_list, repo_id, repo_name,
                                      session.staged)
       IN  session' = [session EXCEPT
               !.repos = Tail(@),
               !.staged = staged,
               !.commits_added = @ + (Len(staged) - Len(session.staged)),
               !.fetched = @ \cup {github_list[k].sha : k \in DOMAIN github_list},
               !.queries = @ \cup {[repo_id |-> repo_id, since |-> session.since]},
               !.detailed = @ \cup {staged[k].commit_sha :
                                       k \in (Len(session.staged) + 1)..Len(staged)},
               !.calls.get_commits = @ + 1,
               !.calls.get_commit_details =
                   @ + (Len(staged) - Len(session.staged))]
    /\ UNCHANGED <<github_vars, now, env, db_vars, pc, outcome, hist_vars,
                   request, other_vars>>

\* _sync_commits, line 216: db.commit() flushes the staged rows
sync_commits_commit ==
    /\ pc = "loop"
    /\ session.repos = <<>>
    /\ UniqueShaOk(commits \o session.staged)
    /\ commits' = commits \o session.staged
    /\ session' = [session EXCEPT !.staged = <<>>]
    /\ pc' = "watermark"
    /\ UNCHANGED <<github_vars, now, env, users, repositories, outcome,
                   hist_vars, request, other_vars>>

\* _sync_commits, line 216: the flush breaks the unique constraint; IntegrityError
\* is no RequestException, it leaves sync_user_data and the transaction is lost
sync_commits_integrity_error ==
    /\ pc = "loop"
    /\ session.repos = <<>>
    /\ ~UniqueShaOk(commits \o session.staged)
    /\ session' = [session EXCEPT !.staged = <<>>]
    /\ outcome' = [NoOutcome EXCEPT !.status = "integrity_error"]
    /\ pc' = "done"
    /\ UNCHANGED <<github_vars, now, env, db_vars, hist_vars, request, other_vars>>

\* get_repositories() raises: _make_request gave up (RuntimeError), or the body
\* was no JSON (a RequestException, which sync_user_data rolls back and wraps)
sync_repositories_fail ==
    /\ pc = "repos"
    /\ session' = [session EXCEPT !.calls.get_repositories = @ + 1]
    /\ outcome' = [NoOutcome EXCEPT !.status = "fetch_error"]
    /\ pc' = "done"
    /\ UNCHANGED <<github_vars, now, env, db_vars, hist_vars, request, other_vars>>

\* the visit of one repository that raises: at get_commits() (failed = 0) or at
\* the get_commit_details() of the failed-th commit not yet stored, the commits
\* before it having been staged and counted; the rows staged so far are dropped
\* with the session
FailedVisit(failed) ==
    LET repo_id == Head(session.repos)
        repo_name == repositories[repo_id].repo_name
        github_list == get_commits(repo_name, session.since,
                                   users[session.user_id].github_username)
        new == ReconcileCommits(github_list, repo_id, repo_name, <<>>)
    IN  IF failed = 0
        THEN [session EXCEPT
                 !.staged = <<>>,
                 !.queries = @ \cup {[repo_id |-> repo_id,
                                      since |-> session.since]},
                 !.calls.get_commits = @ + 1]
        ELSE [session EXCEPT
                 !.staged = <<>>,
                 !.fetched = @ \cup {github_list[k].sha :
                                         k \in DOMAIN github_list},
                 !.queries = @ \cup {[repo_id |-> repo_id,
                                      since |-> session.since]},
                 !.detailed = @ \cup {new[k].commit_sha : k \in 1..failed},
                 !.commits_added = @ + (failed - 1),
                 !.calls.get_commits = @ + 1,
                 !.calls.get_commit_details = @ + failed]

\* how many get_commit_details() calls the visit of the next repository makes
DetailCalls ==
    LET repo_id == Head(session.repos)
        repo_name == repositories[repo_id].repo_name
        github_list == get_commits(repo_name, session.since,
                                   users[session.user_id].github_username)
    IN  Len(ReconcileCommits(github_list, repo_id, repo_name, <<>>))

\* a session that flushes what it has staged before the failure leaves the pass
Mutant_sync_commits_fail_flushed ==
    /\ pc = "loop"
    /\ session.repos # <<>>
    /\ UniqueShaOk(commits \o session.staged)
    /\ \E failed \in 0..DetailCalls : session' = FailedVisit(failed)
    /\ commits' = commits \o session.staged
    /\ outcome' = [NoOutcome EXCEPT !.status = "fetch_error"]
    /\ pc' = "done"
    /\ UNCHANGED <<github_vars, now, env, users, repositories, hist_vars,
                   request, other_vars>>

\* a failure path that still stamps the watermark (the write in a "finally")
Mutant_sync_commits_fail ==
    /\ pc = "loop"
    /\ session.repos # <<>>
    /\ \E failed \in 0..DetailCalls : session' = FailedVisit(failed)
    /\ users' = [users EXCEPT ![session.user_id].last_synced_at = now]
    /\ outcome' = [NoOutcome EXCEPT !.status = "fetch_error"]
    /\ pc' = "done"
    /\ UNCHANGED <<github_vars, now, env, repositories, commits, hist_vars,
                   request, other_vars>>

\* get_commits() or get_commit_details() raises while a repository is visited:
\* the rows staged so far are never flushed
sync_commits_fail ==
    /\ pc = "loop"
    /\ session.repos # <<>>
    /\ \E failed \in 0..DetailCalls : session' = FailedVisit(failed)
    /\ outcome' = [NoOutcome EXCEPT !.status = "fetch_error"]
    /\ pc' = "done"
    /\ UNCHANGED <<github_vars, now, env, db_vars, hist_vars, request, other_vars>>

\* a result that counts what was listed, not what was inserted
Mutant_sync_user_data_finish ==
    /\ pc = "watermark"
    /\ users' = [users EXCEPT ![session.user_id].last_synced_at = now]
    /\ outcome' = [status              |-> "ok",
                   repositories_synced |-> Len(github_repos),
                   commits_synced      |-> Cardinality(session.fetched),
                   last_synced         |-> now]
    /\ pc' = "done"
    /\ UNCHANGED <<github_vars, now, env, repositories, commits, session,
                   hist_vars, request, other_vars>>

\* sync_user_data, lines 86-95: write the watermark, commit, build the result
sync_user_data_finish ==
    /\ pc = "watermark"
    /\ users' = [users EXCEPT ![session.user_id].last_synced_at = now]
    /\ outcome' = [status              |-> "ok",
                   repositories_synced |-> session.repos_added,
                   commits_synced      |-> session.commits_added,
                   last_synced         |-> now]
    /\ pc' = "done"
    /\ UNCHANGED <<github_vars, now, env, repositories, commits, session,
                   hist_vars, request, other_vars>>

\* sync_github_data (POST /sync) answers and get_db() closes the session
sync_github_data_respond ==
    /\ pc = "done"
    /\ previous' = IF outcome.status = "ok"
                   THEN [valid |-> TRUE, repositories |-> repositories,
                         commits |-> commits]
                   ELSE NoPrevious
    /\ before' = NoBefore
    /\ interrupted' = NotInterrupted
    /\ session' = NoSession
    /\ outcome' = NoOutcome
    /\ pc' = "idle"
    /\ UNCHANGED <<github_vars, now, env, db_vars, budget, configured, request,
                   other_vars>>

\* the process is killed in the middle of a pass: what the session holds is lost,
\* what it committed stays
kill ==
    /\ pc \in {"repos", "commits", "loop", "watermark"}
    /\ interrupted' = IF pc = "watermark"
                      THEN [flag |-> TRUE, since |-> session.since]
                      ELSE NotInterrupted
    /\ previous' = NoPrevious
    /\ before' = NoBefore
    /\ session' = NoSession
    /\ pc' = "idle"
    /\ UNCHANGED <<github_vars, now, env, db_vars, outcome, budget, configured,
                   request, other_vars>>

\* the clock moves on; a pass reads it at line 87 only, so within a pass time is
\* let pass right before that line
tick ==
    /\ pc \in {"idle", "watermark"}
    /\ now < MaxTime
    /\ now' = now + 1
    /\ UNCHANGED <<github_vars, env, db_vars, pc, session, outcome, hist_vars,
                   request, other_vars>>

\* tokens of 4 characters and fewer
Token4 == <<"k", "e", "y", "4">>
Token3 == <<"k", "e", "y">>

\* what os.getenv() can return for GITHUB_USERNAME and GITHUB_TOKEN; unset and
\* empty are the same to "if not"
Configs ==
    [username : {Me, ""}, token : {Token, Token4, Token3, <<>>}]

\* between two passes the server is restarted with another environment
env_change ==
    /\ pc = "idle"
    /\ budget.changes < MaxChanges
    /\ \E e \in Configs \ {env} : env' = e
    /\ previous' = NoPrevious
    /\ budget' = [budget EXCEPT !.changes = @ + 1]
    /\ UNCHANGED <<github_vars, now, db_vars, pc, session, outcome,
                   before, interrupted, configured, request, other_vars>>

\* between two passes the account's repositories change
github_repos_change ==
    /\ pc = "idle"
    /\ budget.changes < MaxChanges
    /\ \E l \in Listings \ {github_repos} : github_repos' = l
    /\ previous' = NoPrevious
    /\ budget' = [budget EXCEPT !.changes = @ + 1]
    /\ UNCHANGED <<github_commits, now, env, db_vars, pc, session, outcome,
                   before, interrupted, configured, request, other_vars>>

\* between two passes commits are pushed (or rewritten away)
github_commits_change ==
    /\ pc = "idle"
    /\ budget.changes < MaxChanges
    /\ \E c \in (SUBSET PoolIds) \ {github_commits} : github_commits' = c
    /\ previous' = NoPrevious
    /\ budget' = [budget EXCEPT !.changes = @ + 1]
    /\ UNCHANGED <<github_repos, now, env, db_vars, pc, session, outcome,
                   before, interrupted, configured, request, other_vars>>

-----------------------------------------------------------------------------
(* GitHubClient._get_paginated: one list endpoint read page by page *)

\* page_params["per_page"] = 100
per_page == 100

\* the most records the endpoint holds
MaxRecords == 201

NoPaging ==
    [n        |-> 0,        \* the records the server holds, numbered 1..n
     page     |-> 1,
     items    |-> <<>>,
     requests |-> <<>>,     \* the page numbers asked for, in order
     call     |-> <<0, 0>>, \* the pass and the list call of the pass it serves
     status   |-> "idle"]   \* running, returned, raised

Min(a, b) == IF a < b THEN a ELSE b

\* what the server answers for ?per_page=100&page=page: that slice of its list
ServerPage(n, page) ==
    [k \in 1..(Min(page * per_page, n) - Min((page - 1) * per_page, n)) |->
        (page - 1) * per_page + k]

\* a loop that also takes a full page for the last one
Mutant_ShortPage(chunk) == Len(chunk) <= per_page

\* if len(chunk) < 100: break
ShortPage(chunk) == Len(chunk) < per_page

\* one turn of "while True" that goes on: the page is full
get_paginated_next ==
    /\ paging.status = "running"
    /\ LET chunk == ServerPage(paging.n, paging.page)
       IN  /\ chunk # <<>>
           /\ ~ShortPage(chunk)
           /\ paging' = [paging EXCEPT
                  !.requests = Append(@, paging.page),
                  !.items = @ \o chunk,
                  !.page = @ + 1]
    /\ UNCHANGED <<github_vars, now, env, db_vars, pc, session, outcome,
                   hist_vars, request, summaries, reply, workers>>

\* the turn that breaks: the page is empty or short; return items
get_paginated_return ==
    /\ paging.status = "running"
    /\ LET chunk == ServerPage(paging.n, paging.page)
       IN  /\ chunk = <<>> \/ ShortPage(chunk)
           /\ paging' = [paging EXCEPT
                  !.requests = Append(@, paging.page),
                  !.items = @ \o chunk,
                  !.status = "returned"]
    /\ UNCHANGED <<github_vars, now, env, db_vars, pc, session, outcome,
                   hist_vars, request, summaries, reply, workers>>

\* a loop that catches the failure of a page and returns what it has
Mutant_get_paginated_raise ==
    /\ paging.status = "running"
    /\ paging' = [paging EXCEPT
           !.requests = Append(@, paging.page),
           !.status = "returned"]
    /\ UNCHANGED <<github_vars, now, env, db_vars, pc, session, outcome,
                   hist_vars, request, summaries, reply, workers>>

\* _make_request raises for the page asked: the exception leaves _get_paginated
\* and the items gathered so far go with its frame
get_paginated_raise ==
    /\ paging.status = "running"
    /\ paging' = [paging EXCEPT
           !.requests = Append(@, paging.page),
           !.items = <<>>,
           !.status = "raised"]
    /\ UNCHANGED <<github_vars, now, env, db_vars, pc, session, outcome,
                   hist_vars, request, summaries, reply, workers>>

-----------------------------------------------------------------------------
(* get_summary: GET /summary and its cache, the table summaries *)

\* the clock of this endpoint is read against calendar days; a day is cut into
\* ticks so that two requests can fall on one day
TicksPerDay == 2

\* the requests answered in one behaviour
MaxRequests == 3

\* the rows the table holds at the start
MaxSummaries == 3

week == 7
month == 30

\* now.date()
Date(t) == t \div TicksPerDay

\* days = 7 if timeframe == "week" else 30
Days(timeframe) == IF timeframe = "week" THEN week ELSE month

\* start_day = (now - timedelta(days=days)).date()
start_day(timeframe) == Date(now - Days(timeframe) * TicksPerDay)

\* end_day = now.date()
end_day == Date(now)

Timeframes == {"week", "month", "day"}

\* rows the table can hold before the first request: two for one key (the newer
\* first), one of another account, one of the other timeframe, one with another
\* start date and one with another end date
SummaryPool ==
    << [user_id |-> 1, timeframe |-> "week", start_date |-> 0 - week,
        end_date |-> 0, summary_text |-> "new", generated_at |-> 1],
       [user_id |-> 1, timeframe |-> "week", start_date |-> 0 - week,
        end_date |-> 0, summary_text |-> "old", generated_at |-> 0],
       [user_id |-> 2, timeframe |-> "week", start_date |-> 0 - week,
        end_date |-> 0, summary_text |-> "theirs", generated_at |-> 1],
       [user_id |-> 1, timeframe |-> "month", start_date |-> 0 - month,
        end_date |-> 0, summary_text |-> "month", generated_at |-> 1],
       [user_id |-> 1, timeframe |-> "week", start_date |-> 0 - month,
        end_date |-> 0, summary_text |-> "start", generated_at |-> 1],
       [user_id |-> 1, timeframe |-> "week", start_date |-> 0 - week,
        end_date |-> 1, summary_text |-> "end", generated_at |-> 1] >>

SummaryStores ==
    {LET at == SelectSeq([i \in DOMAIN SummaryPool |-> i],
                         LAMBDA i : i \in ids)
     IN  [k \in DOMAIN at |-> SummaryPool[at[k]]] :
        ids \in {x \in SUBSET DOMAIN SummaryPool :
                    Cardinality(x) <= MaxSummaries}}

\* the two accounts of the rows above; the tracked one has synced
SummaryUsers ==
    << [github_username |-> Me, github_token |-> mask_token(Token),
        last_synced_at |-> 0],
       [github_username |-> Other, github_token |-> mask_token(Token),
        last_synced_at |-> 0] >>

NoReply ==
    [seq          |-> 0,        \* requests answered so far
     status       |-> 0,        \* HTTP status
     timeframe    |-> "",       \* the query parameter
     cached       |-> FALSE,
     row          |-> 0,        \* the row of summaries returned or inserted
     summary      |-> "",
     generated_at |-> Null,
     commit_count |-> 0,
     ai_calls     |-> 0]        \* calls of AIService.generate_summary

\* get_current_user: the row of GITHUB_USERNAME
current_user == CHOOSE i \in UserIds(env.username) : TRUE

\* a lookup that forgets the timeframe
Mutant_CacheMatches(user_id, timeframe) ==
    {k \in DOMAIN summaries :
        /\ summaries[k].user_id = user_id
        /\ summaries[k].start_date = start_day(timeframe)
        /\ summaries[k].end_date = end_day}

\* db.query(Summary).filter(user_id, timeframe, start_date, end_date)
CacheMatches(user_id, timeframe) ==
    {k \in DOMAIN summaries :
        /\ summaries[k].user_id = user_id
        /\ summaries[k].timeframe = timeframe
        /\ summaries[k].start_date = start_day(timeframe)
        /\ summaries[k].end_date = end_day}

\* an ascending order
Mutant_Latest(matches) ==
    {k \in matches :
        \A j \in matches :
            summaries[k].generated_at <= summaries[j].generated_at}

\* .order_by(Summary.generated_at.desc()).first(): a row no other row is newer
\* than (rows of one timestamp come in any order)
Latest(matches) ==
    {k \in matches :
        \A j \in matches :
            summaries[j].generated_at <= summaries[k].generated_at}

\* a count that takes every commit of the user, in the window or not
Mutant_CommitCount(user_id, timeframe) ==
    Cardinality({k \in DOMAIN commits :
        repositories[commits[k].repository_id].user_id = user_id})

\* the count of the user's commits with author_date >= start_date
CommitCount(user_id, timeframe) ==
    Cardinality({k \in DOMAIN commits :
        /\ repositories[commits[k].repository_id].user_id = user_id
        /\ commits[k].author_date >= now - Days(timeframe) * TicksPerDay})

\* lines 196-200: the timeframe is neither "week" nor "month"
get_summary_bad_timeframe ==
    /\ reply.seq < MaxRequests
    /\ UserIds(env.username) # {}
    /\ \E timeframe \in Timeframes \ {"week", "month"} :
         reply' = [NoReply EXCEPT !.seq = reply.seq + 1, !.status = 400,
                                  !.timeframe = timeframe]
    /\ UNCHANGED <<github_vars, now, env, db_vars, pc, session, outcome,
                   hist_vars, request, paging, summaries, workers>>

\* lines 209-230: a stored summary is found and returned
get_summary_hit ==
    /\ reply.seq < MaxRequests
    /\ UserIds(env.username) # {}
    /\ \E timeframe \in {"week", "month"} :
         \E k \in Latest(CacheMatches(current_user, timeframe)) :
            reply' = [seq          |-> reply.seq + 1,
                      status       |-> 200,
                      timeframe    |-> timeframe,
                      cached       |-> TRUE,
                      row          |-> k,
                      summary      |-> summaries[k].summary_text,
                      generated_at |-> summaries[k].generated_at,
                      commit_count |-> CommitCount(current_user, timeframe),
                      ai_calls     |-> 0]
    /\ UNCHANGED <<github_vars, now, env, db_vars, pc, session, outcome,
                   hist_vars, request, paging, summaries, workers>>

\* AIService.generate_summary(commits, timeframe): a fixed sentence when there
\* is no commit, else the text Claude returns
generate_summary(count) == IF count = 0 THEN "No commits found" ELSE "ai"

\* how AIService can fail, as the status get_summary answers: ANTHROPIC_API_KEY
\* is unset (ValueError, 400), the API call fails (RuntimeError, 502), anything
\* else (500); without commits there is no API call to fail
AIServiceErrors(count) == IF count = 0 THEN {400} ELSE {400, 502, 500}

\* get_current_user, lines 59-66: the user has no row yet
get_summary_no_user ==
    /\ reply.seq < MaxRequests
    /\ UserIds(env.username) = {}
    /\ \E timeframe \in Timeframes :
         reply' = [NoReply EXCEPT !.seq = reply.seq + 1, !.status = 404,
                                  !.timeframe = timeframe]
    /\ UNCHANGED <<github_vars, now, env, db_vars, pc, session, outcome,
                   hist_vars, request, paging, summaries, workers>>

\* a miss that answers with the new summary and does not store it
Mutant_get_summary_miss ==
    /\ reply.seq < MaxRequests
    /\ UserIds(env.username) # {}
    /\ \E timeframe \in {"week", "month"} :
         /\ CacheMatches(current_user, timeframe) = {}
         /\ reply' = [seq          |-> reply.seq + 1,
                      status       |-> 200,
                      timeframe    |-> timeframe,
                      cached       |-> FALSE,
                      row          |-> 0,
                      summary      |->
                          generate_summary(CommitCount(current_user, timeframe)),
                      generated_at |-> now,
                      commit_count |-> CommitCount(current_user, timeframe),
                      ai_calls     |-> 1]
    /\ UNCHANGED <<github_vars, now, env, db_vars, pc, session, outcome,
                   hist_vars, request, paging, summaries, workers>>

\* lines 232-282: nothing is found, a summary is generated and stored
get_summary_miss ==
    /\ reply.seq < MaxRequests
    /\ UserIds(env.username) # {}
    /\ \E timeframe \in {"week", "month"} :
         /\ CacheMatches(current_user, timeframe) = {}
         /\ summaries' = Append(summaries,
                [user_id      |-> current_user,
                 timeframe    |-> timeframe,
                 start_date   |-> start_day(timeframe),
                 end_date     |-> end_day,
                 summary_text |->
                     generate_summary(CommitCount(current_user, timeframe)),
                 generated_at |-> now])
         /\ reply' = [seq          |-> reply.seq + 1,
                      status       |-> 200,
                      timeframe    |-> timeframe,
                      cached       |-> FALSE,
                      row          |-> Len(summaries) + 1,
                      summary      |->
                          generate_summary(CommitCount(current_user, timeframe)),
                      generated_at |-> now,
                      commit_count |-> CommitCount(current_user, timeframe),
                      ai_calls     |-> 1]
    /\ UNCHANGED <<github_vars, now, env, db_vars, pc, session, outcome,
                   hist_vars, request, paging, workers>>

\* a failure that leaves a row behind
Mutant_get_summary_ai_error ==
    /\ reply.seq < MaxRequests
    /\ UserIds(env.username) # {}
    /\ \E timeframe \in {"week", "month"} :
       \E status \in AIServiceErrors(CommitCount(current_user, timeframe)) :
         /\ CacheMatches(current_user, timeframe) = {}
         /\ summaries' = Append(summaries,
                [user_id      |-> current_user,
                 timeframe    |-> timeframe,
                 start_date   |-> start_day(timeframe),
                 end_date     |-> end_day,
                 summary_text |-> "",
                 generated_at |-> now])
         /\ reply' = [NoReply EXCEPT !.seq = reply.seq + 1,
                                     !.status = status,
                                     !.timeframe = timeframe,
                                     !.ai_calls = 1]
    /\ UNCHANGED <<github_vars, now, env, db_vars, pc, session, outcome,
                   hist_vars, request, paging, workers>>

\* lines 251-262: nothing is found and AIService raises; nothing is stored
get_summary_ai_error ==
    /\ reply.seq < MaxRequests
    /\ UserIds(env.username) # {}
    /\ \E timeframe \in {"week", "month"} :
       \E status \in AIServiceErrors(CommitCount(current_user, timeframe)) :
         /\ CacheMatches(current_user, timeframe) = {}
         /\ reply' = [NoReply EXCEPT !.seq = reply.seq + 1,
                                     !.status = status,
                                     !.timeframe = timeframe,
                                     !.ai_calls = 1]
    /\ UNCHANGED <<github_vars, now, env, db_vars, pc, session, outcome,
                   hist_vars, request, paging, summaries, workers>>

-----------------------------------------------------------------------------
(* Two POST /sync requests served at once: FastAPI runs the endpoint, a plain
   "def", in a thread pool, each request with a session of its own *)

Workers == {1, 2}

NoWorker ==
    [pc       |-> "idle",   \* idle, repos, commits, flush, watermark, done, failed
     user_id  |-> 0,
     seen     |-> 0,        \* the rows of repositories when the worker read it
     updates  |-> {},       \* the metadata it refreshed, not yet committed
     staged   |-> <<>>,     \* the rows it db.add()ed, not yet committed
     inserted |-> {},       \* the rows of repositories it inserted
     flushed  |-> {}]       \* the rows of commits it inserted

NoWorkers == [w \in Workers |-> NoWorker]

\* sync_user_data, lines 55-76: the worker finds the user row and rewrites its
\* token, and commits
worker_begin(w) ==
    /\ workers[w].pc = "idle"
    /\ UserIds(env.username) # {}
    /\ users' = [users EXCEPT
           ![current_user].github_token = mask_token(env.token)]
    /\ workers' = [workers EXCEPT ![w].pc = "repos",
                                  ![w].user_id = current_user]
    /\ UNCHANGED <<github_vars, now, env, repositories, commits, pc, session,
                   outcome, hist_vars, request, paging, summaries, reply>>

\* _sync_repositories, lines 127-150: the listing is reconciled with the rows
\* committed so far; what the other worker has staged is not seen
worker_sync_repositories(w) ==
    /\ workers[w].pc = "repos"
    /\ \E r \in ReconcileRepositories(get_repositories, workers[w].user_id,
                                      repositories, <<>>, 0) :
         workers' = [workers EXCEPT
             ![w].pc = "commits",
             ![w].seen = Len(repositories),
             ![w].updates = {[row |-> i, repo_url |-> r.rows[i].repo_url,
                              language |-> r.rows[i].language] :
                                i \in {j \in DOMAIN repositories :
                                          r.rows[j] # repositories[j]}},
             ![w].staged = r.staged]
    /\ UNCHANGED <<github_vars, now, env, db_vars, pc, session, outcome,
                   hist_vars, request, paging, summaries, reply>>

\* _sync_repositories, line 152: db.commit() writes the refreshed metadata and
\* inserts the staged rows
worker_commit_repositories(w) ==
    /\ workers[w].pc = "commits"
    /\ LET refreshed ==
               [i \in DOMAIN repositories |->
                   IF \E u \in workers[w].updates : u.row = i
                   THEN LET u == CHOOSE u \in workers[w].updates : u.row = i
                        IN  [repositories[i] EXCEPT !.repo_url = u.repo_url,
                                                    !.language = u.language]
                   ELSE repositories[i]]
       IN  /\ repositories' = refreshed \o workers[w].staged
           /\ workers' = [workers EXCEPT
                  ![w].pc = "flush",
                  ![w].updates = {},
                  ![w].staged = <<>>,
                  ![w].inserted =
                      (Len(repositories) + 1)
                          ..(Len(repositories) + Len(workers[w].staged))]
    /\ UNCHANGED <<github_vars, now, env, users, commits, pc, session, outcome,
                   hist_vars, request, paging, summaries, reply>>

\* the loop of _sync_commits over the user's repositories: the rows staged
RECURSIVE StageCommits(_, _, _)
StageCommits(repos, since, staged) ==
    IF repos = <<>> THEN staged
    ELSE LET repo_id == Head(repos)
             repo_name == repositories[repo_id].repo_name
             github_list == get_commits(repo_name, since, env.username)
         IN  StageCommits(Tail(repos), since,
                 ReconcileCommits(github_list, repo_id, repo_name, staged))

\* _sync_commits, lines 170-214: every repository of the user is visited and
\* the commits not yet committed to the table are staged
worker_sync_commits(w) ==
    /\ workers[w].pc = "flush"
    /\ workers' = [workers EXCEPT
           ![w].pc = "watermark",
           ![w].staged = StageCommits(
               SelectSeq([i \in DOMAIN repositories |-> i],
                   LAMBDA i : repositories[i].user_id = workers[w].user_id),
               FormatSince(users[workers[w].user_id].last_synced_at),
               <<>>)]
    /\ UNCHANGED <<github_vars, now, env, db_vars, pc, session, outcome,
                   hist_vars, request, paging, summaries, reply>>

\* _sync_commits, line 216, and sync_user_data, lines 87-88: the staged rows are
\* flushed and the watermark is written
worker_finish(w) ==
    /\ workers[w].pc = "watermark"
    /\ UniqueShaOk(commits \o workers[w].staged)
    /\ commits' = commits \o workers[w].staged
    /\ users' = [users EXCEPT ![workers[w].user_id].last_synced_at = now]
    /\ workers' = [workers EXCEPT
           ![w].pc = "done",
           ![w].staged = <<>>,
           ![w].flushed =
               (Len(commits) + 1)..(Len(commits) + Len(workers[w].staged))]
    /\ UNCHANGED <<github_vars, now, env, repositories, pc, session, outcome,
                   hist_vars, request, paging, summaries, reply>>

\* _sync_commits, line 216: the flush breaks the unique constraint on
\* commit_sha; the worker's transaction is lost
worker_integrity_error(w) ==
    /\ workers[w].pc = "watermark"
    /\ ~UniqueShaOk(commits \o workers[w].staged)
    /\ workers' = [workers EXCEPT ![w].pc = "failed"]
    /\ UNCHANGED <<github_vars, now, env, db_vars, pc, session, outcome,
                   hist_vars, request, paging, summaries, reply>>

-----------------------------------------------------------------------------
(* One pass at the grain of its requests: every list call of the pass is a *)
(* _get_paginated, every page and every get_commit_details a _make_request  *)

\* the list call the pass is about to make or is waiting for
CurrentCall ==
    <<budget.passes,
      session.calls.get_repositories + session.calls.get_commits + 1>>

\* the records of the pools that the endpoint of that call holds
PoolRecords ==
    IF pc = "repos"
    THEN Len(get_repositories)
    ELSE Len(get_commits(repositories[Head(session.repos)].repo_name,
                         session.since,
                         users[session.user_id].github_username))

\* an endpoint can hold whole pages of records besides those of the pools;
\* to the loop of _get_paginated only their number matters
Extra == {0, per_page, 2 * per_page}

\* get_repositories() / get_commits() enter _get_paginated: items = [],
\* page = 1, and the request for the first page leaves
get_paginated_call ==
    /\ pc = "repos" \/ (pc = "loop" /\ session.repos # <<>>)
    /\ paging.call # CurrentCall
    /\ \E extra \in Extra :
         /\ PoolRecords + extra <= MaxRecords
         /\ paging' = [NoPaging EXCEPT !.n = PoolRecords + extra,
                                       !.status = "running",
                                       !.call = CurrentCall]
    /\ request' = [NoRequest EXCEPT !.page = 1]
    /\ UNCHANGED <<github_vars, now, env, db_vars, pc, session, outcome,
                   hist_vars, summaries, reply, workers>>

\* response = self._make_request(url, page_params) of a turn after the first
get_paginated_request ==
    /\ paging.status = "running"
    /\ request.status = "returned"
    /\ request.page # paging.page
    /\ request' = [NoRequest EXCEPT !.page = paging.page]
    /\ UNCHANGED <<github_vars, now, env, db_vars, pc, session, outcome,
                   hist_vars, other_vars>>

\* the request for the page the loop stands at has ended with this status
PageRequest(status) ==
    /\ paging.status = "running"
    /\ request.page = paging.page
    /\ request.status = status

\* chunk = response.json() is a full page
pass_get_paginated_next == PageRequest("returned") /\ get_paginated_next

\* chunk = response.json() is empty or short
pass_get_paginated_return == PageRequest("returned") /\ get_paginated_return

\* _make_request raised
pass_get_paginated_raise == PageRequest("raised") /\ get_paginated_raise

\* the list call of the pass has ended with this status
ListCall(status) == paging.call = CurrentCall /\ paging.status = status

\* github_repos = self.github_client.get_repositories() returned
pass_sync_repositories == ListCall("returned") /\ sync_repositories

\* get_repositories() raised
pass_sync_repositories_fail == ListCall("raised") /\ sync_repositories_fail

\* details = self.github_client.get_commit_details(...): the request for the
\* next commit of the listing that is not stored
get_commit_details_request ==
    /\ pc = "loop"
    /\ session.repos # <<>>
    /\ ListCall("returned")
    /\ request.status = "returned"
    /\ request.detail < DetailCalls
    /\ request' = [NoRequest EXCEPT !.detail = request.detail + 1]
    /\ UNCHANGED <<github_vars, now, env, db_vars, pc, session, outcome,
                   hist_vars, other_vars>>

\* the visit of a repository is through: its listing and every detail returned
pass_sync_commits_repo ==
    /\ pc = "loop"
    /\ session.repos # <<>>
    /\ ListCall("returned")
    /\ request.status = "returned"
    /\ request.detail = DetailCalls
    /\ sync_commits_repo

\* get_commits() raised, or the get_commit_details() of the request.detail-th
\* new commit did
pass_sync_commits_fail ==
    /\ pc = "loop"
    /\ session.repos # <<>>
    /\ \/ ListCall("raised")
       \/ ListCall("returned") /\ request.status = "raised"
    /\ sync_commits_fail
    /\ session'.calls.get_commit_details =
           session.calls.get_commit_details +
               (IF ListCall("raised") THEN 0 ELSE request.detail)

-----------------------------------------------------------------------------
(* Specifications *)

InitStore ==
    /\ now = 0
    /\ env = [username |-> Me, token |-> Token]
    /\ users = <<>>
    /\ repositories = <<>>
    /\ commits = <<>>
    /\ pc = "idle"
    /\ session = NoSession
    /\ outcome = NoOutcome
    /\ before = NoBefore
    /\ previous = NoPrevious
    /\ interrupted = NotInterrupted
    /\ budget = [passes |-> 0, changes |-> 0]
    /\ configured = <<>>
    /\ request = NoRequest

Init ==
    /\ github_repos \in Listings
    /\ github_commits \in SUBSET PoolIds
    /\ InitStore
    /\ paging = NoPaging
    /\ summaries = <<>>
    /\ reply = NoReply
    /\ workers = NoWorkers

Next ==
    \/ sync_user_data_begin
    \/ sync_repositories
    \/ sync_repositories_fail
    \/ sync_commits_begin
    \/ sync_commits_repo
    \/ sync_commits_fail
    \/ sync_commits_commit
    \/ sync_commits_integrity_error
    \/ sync_user_data_finish
    \/ sync_github_data_respond
    \/ kill
    \/ tick
    \/ github_repos_change
    \/ github_commits_change

Spec == Init /\ [][Next]_vars

InitRetry ==
    /\ github_repos = <<>>
    /\ github_commits = {}
    /\ InitStore
    /\ paging = NoPaging
    /\ summaries = <<>>
    /\ reply = NoReply
    /\ workers = NoWorkers

NextRetry ==
    \/ make_request_return
    \/ make_request_retry
    \/ make_request_raise

SpecRetry == InitRetry /\ [][NextRetry]_vars

InitConfig ==
    /\ github_repos = Listing({1, 3})
    /\ github_commits = {1, 2}
    /\ now = 0
    /\ env \in Configs
    /\ users = <<>>
    /\ repositories = <<>>
    /\ commits = <<>>
    /\ pc = "idle"
    /\ session = NoSession
    /\ outcome = NoOutcome
    /\ before = NoBefore
    /\ previous = NoPrevious
    /\ interrupted = NotInterrupted
    /\ budget = [passes |-> 0, changes |-> 0]
    /\ configured = <<>>
    /\ request = NoRequest
    /\ paging = NoPaging
    /\ summaries = <<>>
    /\ reply = NoReply
    /\ workers = NoWorkers

NextConfig ==
    \/ sync_config_error
    \/ sync_user_data_begin
    \/ sync_repositories
    \/ sync_repositories_fail
    \/ sync_commits_begin
    \/ sync_commits_repo
    \/ sync_commits_fail
    \/ sync_commits_commit
    \/ sync_user_data_finish
    \/ sync_github_data_respond
    \/ env_change

SpecConfig == InitConfig /\ [][NextConfig]_vars

InitConcurrent ==
    /\ github_repos \in {l \in Listings :
                            \A i, j \in DOMAIN l : l[i].name = l[j].name => i = j}
    /\ github_commits \in SUBSET PoolIds
    /\ now = 0
    /\ env = [username |-> Me, token |-> Token]
    /\ users = <<NewUser(Me, Token)>>
    /\ repositories = <<>>
    /\ commits = <<>>
    /\ pc = "idle"
    /\ session = NoSession
    /\ outcome = NoOutcome
    /\ before = NoBefore
    /\ previous = NoPrevious
    /\ interrupted = NotInterrupted
    /\ budget = [passes |-> 0, changes |-> 0]
    /\ configured = <<>>
    /\ request = NoRequest
    /\ paging = NoPaging
    /\ summaries = <<>>
    /\ reply = NoReply
    /\ workers = NoWorkers

NextConcurrent ==
    \E w \in Workers :
        \/ worker_begin(w)
        \/ worker_sync_repositories(w)
        \/ worker_commit_repositories(w)
        \/ worker_sync_commits(w)
        \/ worker_finish(w)
        \/ worker_integrity_error(w)

SpecConcurrent == InitConcurrent /\ [][NextConcurrent]_vars

\* GET /summary is asked while POST /sync passes run: the account has one
\* repository with a commit within the last week and an older one
InitSummarySync ==
    /\ github_repos = Listing({1})
    /\ github_commits = {1, 2}
    /\ now = (week + 1) * TicksPerDay
    /\ env = [username |-> Me, token |-> Token]
    /\ users = <<>>
    /\ repositories = <<>>
    /\ commits = <<>>
    /\ pc = "idle"
    /\ session = NoSession
    /\ outcome = NoOutcome
    /\ before = NoBefore
    /\ previous = NoPrevious
    /\ interrupted = NotInterrupted
    /\ budget = [passes |-> 0, changes |-> 0]
    /\ configured = <<>>
    /\ request = NoRequest
    /\ paging = NoPaging
    /\ summaries = <<>>
    /\ reply = NoReply
    /\ workers = NoWorkers

NextSummarySync ==
    \/ sync_user_data_begin
    \/ sync_repositories
    \/ sync_repositories_fail
    \/ sync_commits_begin
    \/ sync_commits_repo
    \/ sync_commits_fail
    \/ sync_commits_commit
    \/ sync_user_data_finish
    \/ sync_github_data_respond
    \/ get_summary_no_user
    \/ get_summary_bad_timeframe
    \/ get_summary_hit
    \/ get_summary_miss
    \/ get_summary_ai_error

SpecSummarySync == InitSummarySync /\ [][NextSummarySync]_vars

\* one pass over an empty store, from POST /sync to its answer
InitTerminate ==
    /\ github_repos = Listing({1, 3})
    /\ github_commits \in {{1}, {1, 2}, {2, 3}}
    /\ now = 0
    /\ env = [username |-> Me, token |-> Token]
    /\ users = <<>>
    /\ repositories = <<>>
    /\ commits = <<>>
    /\ pc = "idle"
    /\ session = NoSession
    /\ outcome = NoOutcome
    /\ before = NoBefore
    /\ previous = NoPrevious
    /\ interrupted = NotInterrupted
    /\ budget = [passes |-> MaxPasses - 1, changes |-> 0]
    /\ configured = <<>>
    /\ request = [NoRequest EXCEPT !.status = "idle"]
    /\ paging = NoPaging
    /\ summaries = <<>>
    /\ reply = NoReply
    /\ workers = NoWorkers

NextTerminate ==
    \/ sync_user_data_begin
    \/ get_paginated_call
    \/ make_request_return
    \/ make_request_retry
    \/ make_request_raise
    \/ get_paginated_request
    \/ pass_get_paginated_next
    \/ pass_get_paginated_return
    \/ pass_get_paginated_raise
    \/ pass_sync_repositories
    \/ pass_sync_repositories_fail
    \/ sync_commits_begin
    \/ get_commit_details_request
    \/ pass_sync_commits_repo
    \/ pass_sync_commits_fail
    \/ sync_commits_commit
    \/ sync_commits_integrity_error
    \/ sync_user_data_finish
    \/ sync_github_data_respond

\* the process runs one thread: as long as the code has a next statement, it
\* takes it
SpecTerminate == InitTerminate /\ [][NextTerminate]_vars /\ WF_vars(NextTerminate)

InitPages ==
    /\ github_repos = <<>>
    /\ github_commits = {}
    /\ InitStore
    /\ \E n \in 0..MaxRecords :
         paging = [NoPaging EXCEPT !.n = n, !.status = "running"]
    /\ summaries = <<>>
    /\ reply = NoReply
    /\ workers = NoWorkers

NextPages ==
    \/ get_paginated_next
    \/ get_paginated_return
    \/ get_paginated_raise

SpecPages == InitPages /\ [][NextPages]_vars

InitSummary ==
    /\ github_repos = <<>>
    /\ github_commits = {}
    /\ now = 0
    /\ env = [username |-> Me, token |-> Token]
    /\ users = SummaryUsers
    /\ repositories = <<>>
    /\ commits = <<>>
    /\ pc = "idle"
    /\ session = NoSession
    /\ outcome = NoOutcome
    /\ before = NoBefore
    /\ previous = NoPrevious
    /\ interrupted = NotInterrupted
    /\ budget = [passes |-> 0, changes |-> 0]
    /\ configured = <<>>
    /\ request = NoRequest
    /\ paging = NoPaging
    /\ summaries \in SummaryStores
    /\ reply = NoReply
    /\ workers = NoWorkers

NextSummary ==
    \/ get_summary_bad_timeframe
    \/ get_summary_hit
    \/ get_summary_miss
    \/ get_summary_ai_error
    \/ tick

SpecSummary == InitSummary /\ [][NextSummary]_vars

-----------------------------------------------------------------------------
(* Properties of the sync passes (Spec) *)

Shas(rows) == {rows[i].commit_sha : i \in DOMAIN rows}

PassEnded(status) == pc = "done" /\ outcome.status = status

\* C1: idempotence. When a pass succeeds right after another successful pass and
\* GitHub did not change in between, it reports no new repository and no new
\* commit, and both tables are what the first pass left.
C1_Idempotent ==
    (PassEnded("ok") /\ previous.valid) =>
        /\ outcome.repositories_synced = 0
        /\ outcome.commits_synced = 0
        /\ repositories = previous.repositories
        /\ commits = previous.commits

\* C2: a pass in which a fetch failed leaves last_synced_at as it was before the
\* pass, and last_synced_at is written by the final step only, which is reached
\* only after both _sync_repositories and _sync_commits have returned.
C2_FailureKeepsWatermark ==
    /\ [](PassEnded("fetch_error") => LastSyncedAt = before.last_synced_at)
    /\ [][LastSyncedAt' # LastSyncedAt =>
            /\ pc = "watermark"
            /\ session.repos = <<>> /\ session.staged = <<>>
            /\ outcome'.status = "ok"]_vars

\* C2 witness: a fetch fails in a later pass, after commits were staged, with the
\* watermark of an earlier pass in place.
C2_Witness ==
    /\ PassEnded("fetch_error")
    /\ session.commits_added > 0
    /\ LastSyncedAt # Null

\* C3: a pass is all-or-nothing. When a fetch fails during the pass, the
\* repositories, the commits and the watermark are those stored before the pass.
C3_AllOrNothing ==
    PassEnded("fetch_error") =>
        /\ repositories = before.repositories
        /\ commits = before.commits
        /\ LastSyncedAt = before.last_synced_at

\* C4: no two stored commits have the same commit_sha, in any state any sequence
\* of passes (successful, failed or killed) reaches.
C4_UniqueCommitSha ==
    \A i, j \in DOMAIN commits :
        commits[i].commit_sha = commits[j].commit_sha => i = j

\* C4 witness: a successful pass was handed a sha that was already stored.
C4_Witness ==
    /\ PassEnded("ok")
    /\ session.fetched \cap Shas(before.commits) # {}
    /\ session.commits_added > 0

\* C5: no two stored repositories of one account have the same name, whatever
\* the listing returns.
C5_UniqueRepoName ==
    \A i, j \in DOMAIN repositories :
        (/\ repositories[i].user_id = repositories[j].user_id
         /\ repositories[i].repo_name = repositories[j].repo_name) => i = j

C7_WatermarkAdvances ==
    [][/\ LastSyncedAt # Null =>
            (LastSyncedAt' # Null /\ LastSyncedAt' >= LastSyncedAt)
       /\ LastSyncedAt' # LastSyncedAt =>
            (pc = "watermark" /\ pc' = "done" /\ outcome'.status = "ok")]_vars

\* C7 witness: a second successful pass moved the watermark forward.
C7_Witness ==
    /\ PassEnded("ok")
    /\ before.last_synced_at # Null
    /\ LastSyncedAt > before.last_synced_at

-----------------------------------------------------------------------------
(* Properties of one call of _make_request (SpecRetry) *)

AllFailed == \A k \in DOMAIN request.seen : request.seen[k] \in Failures

\* C8: the retry ceiling. A call issues at most 3 requests; when all 3 fail it
\* raises RuntimeError from the last failure; when an attempt succeeds its
\* response is returned; a call that has ended issues no further request.
C8_RetryCeiling ==
    /\ [](/\ request.sent <= 3
          /\ request.sent = Len(request.seen)
          /\ (Len(request.seen) = 3 /\ AllFailed) =>
                /\ request.status = "raised"
                /\ request.error = [kind |-> "RuntimeError", cause |-> 3]
          /\ \A k \in DOMAIN request.seen : request.seen[k] = "ok" =>
                /\ request.status = "returned"
                /\ request.response = k
                /\ request.sent = k)
    /\ [][request.status # "running" => request' = request]_vars

\* C8 witness: three attempts failed and the call raised.
C8_Witness ==
    /\ request.status = "raised"
    /\ request.sent = 3

\* C9: the backoff schedule. The wait after the k-th failed attempt is 2^(k-1)
\* seconds, there is no wait after the attempt that ends the call, and a call
\* that fails twice and then succeeds has slept 1 + 2 = 3 seconds.
C9_Backoff ==
    /\ \A k \in DOMAIN request.sleeps : request.sleeps[k] = Pow2(k - 1)
    /\ Len(request.sleeps) =
          IF request.status = "running" THEN Len(request.seen)
          ELSE Len(request.seen) - 1
    /\ (request.status = "returned" /\ Len(request.seen) = 3) =>
          SumSeq(request.sleeps) = 3

\* C9 witness: two failures, then a response.
C9_Witness ==
    /\ request.status = "returned"
    /\ request.sent = 3
    /\ request.sleeps = <<1, 2>>

C12_SinceIsWatermark ==
    \A q \in session.queries : q.since = before.last_synced_at

\* C12 amended: the since of every get_commits() call of a pass is absent when
\* the pass starts without a watermark, and is otherwise the stored
\* last_synced_at cut down to the whole second.
C12_SinceIsWholeSecond ==
    \A q \in session.queries :
        /\ before.last_synced_at = Null => q.since = Null
        /\ before.last_synced_at # Null =>
              /\ q.since # Null
              /\ q.since % TicksPerSecond = 0
              /\ q.since <= before.last_synced_at
              /\ before.last_synced_at < q.since + TicksPerSecond

\* C12 witness: a later pass queries the commits of a repository with a since
\* that is earlier than the watermark, which lies within a second.
C12_Witness ==
    /\ pc = "loop"
    /\ before.last_synced_at # Null
    /\ \E q \in session.queries : q.since < before.last_synced_at

\* the pass started with no watermark and nothing stored
FirstSync ==
    /\ before.last_synced_at = Null
    /\ before.repositories = <<>>
    /\ before.commits = <<>>

\* the commits upstream that the tracked user wrote in the listed repositories
Authored ==
    {i \in github_commits :
        /\ CommitPool[i].author = env.username
        /\ \E k \in DOMAIN github_repos :
               github_repos[k].name = CommitPool[i].repo}

\* C13: first-sync result. A successful pass that starts with no watermark and
\* an empty store leaves one Repository row per listed repository, with or
\* without commits, one Commit row per commit the tracked user wrote in those
\* repositories, no row for a commit of anyone else, and last_synced_at at the
\* time the pass completed.
C13_FirstSync ==
    (PassEnded("ok") /\ FirstSync) =>
        /\ Len(repositories) = Len(github_repos)
        /\ \A k \in DOMAIN github_repos :
              /\ repositories[k].repo_name = github_repos[k].name
              /\ repositories[k].repo_url = github_repos[k].url
        /\ Len(commits) = Cardinality(Authored)
        /\ \A i \in Authored :
              \E k \in DOMAIN commits :
                 /\ commits[k].commit_sha = CommitPool[i].sha
                 /\ repositories[commits[k].repository_id].repo_name
                        = CommitPool[i].repo
        /\ \A k \in DOMAIN commits :
              \E i \in Authored :
                 /\ commits[k].commit_sha = CommitPool[i].sha
                 /\ repositories[commits[k].repository_id].repo_name
                        = CommitPool[i].repo
        /\ LastSyncedAt = now

\* C13 witness: a first sync of two repositories, one with no commit at all and
\* one with two commits of the tracked user and one of somebody else.
C13_Witness ==
    /\ PassEnded("ok") /\ FirstSync
    /\ Len(github_repos) = 2
    /\ github_commits = {1, 2, 4}
    /\ Len(repositories) = 2
    /\ Len(commits) = 2
    /\ now > 0

\* the rows of repositories this pass inserted
InsertedRepos == (Len(before.repositories) + 1)..Len(repositories)

\* C14: a repository that a later pass inserts (the watermark is set) has its
\* commits queried without since in that pass, and when the pass succeeds every
\* commit the tracked user wrote in it is stored, whatever the watermark.
C14_NewRepoUnbounded ==
    /\ \A q \in session.queries :
          q.repo_id \in InsertedRepos => q.since = Null
    /\ PassEnded("ok") =>
          \A r \in InsertedRepos : \A i \in github_commits :
             (/\ CommitPool[i].repo = repositories[r].repo_name
              /\ CommitPool[i].author = env.username)
                => CommitPool[i].sha \in Shas(commits)

\* C20: the result of a successful pass. repositories_synced is the number of
\* Repository rows the pass inserted, commits_synced the number of Commit rows
\* it inserted (rows after minus rows before), and last_synced the
\* last_synced_at the pass stored.
C20_ResultCounts ==
    PassEnded("ok") =>
        /\ outcome.repositories_synced
              = Len(repositories) - Len(before.repositories)
        /\ outcome.commits_synced = Len(commits) - Len(before.commits)
        /\ outcome.last_synced = LastSyncedAt
        /\ LastSyncedAt # Null

\* C20 witness: a successful pass that found rows of an earlier pass and
\* inserted a repository and a commit of its own.
C20_Witness ==
    /\ PassEnded("ok")
    /\ before.repositories # <<>>
    /\ outcome.repositories_synced > 0
    /\ outcome.commits_synced > 0

\* C22: when a fetch fails in the middle of _sync_commits, after commits were
\* staged, none of the commits staged in the pass is in the table afterwards,
\* and the pass ends with the failure, which the caller gets.
C22_StagedCommitsLost ==
    /\ PassEnded("fetch_error") =>
          /\ commits = before.commits
          /\ session.staged = <<>>
    /\ (pc = "done" /\ session.repos # <<>>) => outcome.status = "fetch_error"

\* C22 witness: a pass staged a commit of its first repository and the fetch
\* failed at its second; the table holds no commit.
C22_Witness ==
    /\ PassEnded("fetch_error")
    /\ session.commits_added > 0
    /\ session.calls.get_commits = 2
    /\ commits = <<>>

\* C23: Commit rows are immutable. A row that was stored when a pass began is
\* at every point of the pass what it was: message, author_date, files_changed,
\* additions, deletions and repository_id, also when GitHub now serves other
\* data for its sha. (The table changes within passes only.)
C23_CommitsImmutable ==
    /\ Len(before.commits) <= Len(commits)
    /\ \A i \in DOMAIN before.commits : commits[i] = before.commits[i]
    /\ pc = "idle" => before.commits = <<>>

\* C23 witness: a successful pass was served, by another repository and with
\* another message, a sha that was stored already; the row is as it was.
C23_Witness ==
    /\ PassEnded("ok")
    /\ \E i \in DOMAIN before.commits, k \in github_commits :
          /\ CommitPool[k].sha = before.commits[i].commit_sha
          /\ CommitPool[k].sha \in session.fetched
          /\ CommitPool[k].message # before.commits[i].message
          /\ CommitPool[k].repo
                # repositories[before.commits[i].repository_id].repo_name
          /\ \E q \in session.queries :
                repositories[q.repo_id].repo_name = CommitPool[k].repo
          /\ commits[i].message = before.commits[i].message

\* C24 as stated: detail statistics are fetched lazily. In every pass
\* get_commit_details() is called for a sha only if no stored row has it, the
\* call comes before the row is inserted, and the pass makes as many of these
\* calls as it stages commits.
C24_DetailPerStaged ==
    /\ session.detailed \cap Shas(before.commits) = {}
    /\ \A k \in DOMAIN session.staged :
          session.staged[k].commit_sha \in session.detailed
    /\ \A i \in (Len(before.commits) + 1)..Len(commits) :
          pc # "idle" => commits[i].commit_sha \in session.detailed
    /\ session.calls.get_commit_details = session.commits_added

\* C24 amended: get_commit_details() is called for a sha only if no stored row
\* has it, and before the row is inserted; the pass makes as many of these
\* calls as it stages commits, and one more when it ends in the failure of
\* such a call, which stages nothing.
C24_DetailLazy ==
    /\ session.detailed \cap Shas(before.commits) = {}
    /\ \A k \in DOMAIN session.staged :
          session.staged[k].commit_sha \in session.detailed
    /\ \A i \in (Len(before.commits) + 1)..Len(commits) :
          pc # "idle" => commits[i].commit_sha \in session.detailed
    /\ ~PassEnded("fetch_error") =>
          session.calls.get_commit_details = session.commits_added
    /\ PassEnded("fetch_error") =>
          \/ session.calls.get_commit_details = session.commits_added
          \/ session.calls.get_commit_details = session.commits_added + 1

\* C24 witness: a pass over a repository with a stored commit and a new one
\* called get_commit_details() once, for the new one.
C24_Witness ==
    /\ PassEnded("ok")
    /\ before.commits # <<>>
    /\ Shas(before.commits) \cap session.fetched # {}
    /\ session.calls.get_commit_details = 1
    /\ Cardinality(session.detailed) = 1
    /\ Len(commits) = Len(before.commits) + 1

\* C25: repository refresh. After a successful pass every stored repository
\* whose name is in the listing has the url and the language listed for that
\* name; a listed repository whose name was stored is updated and not inserted
\* (the count of new repositories leaves it out), and every row that was stored
\* keeps its place, its user and its name.
C25_RepositoryRefresh ==
    PassEnded("ok") =>
        /\ \A i \in DOMAIN repositories :
              (\E k \in DOMAIN github_repos :
                  github_repos[k].name = repositories[i].repo_name) =>
              (\E k \in DOMAIN github_repos :
                  /\ github_repos[k].name = repositories[i].repo_name
                  /\ github_repos[k].url = repositories[i].repo_url
                  /\ github_repos[k].language = repositories[i].language)
        /\ outcome.repositories_synced =
              Cardinality({k \in DOMAIN github_repos :
                  \A i \in DOMAIN before.repositories :
                      before.repositories[i].repo_name # github_repos[k].name})
        /\ Len(repositories) =
              Len(before.repositories) + outcome.repositories_synced
        /\ \A i \in DOMAIN before.repositories :
              /\ repositories[i].repo_name = before.repositories[i].repo_name
              /\ repositories[i].user_id = before.repositories[i].user_id

\* C29: the watermark bounds truthfully what is synchronized. Whenever no pass
\* is running and last_synced_at is set, every commit that exists upstream, was
\* written by the tracked user in a stored repository and is dated at or before
\* last_synced_at, is stored.
C29_WatermarkTruthful ==
    (pc \in {"idle", "done"} /\ LastSyncedAt # Null) =>
        \A i \in github_commits :
            (/\ CommitPool[i].author = env.username
             /\ \E r \in DOMAIN repositories :
                    repositories[r].repo_name = CommitPool[i].repo
             /\ CommitPool[i].date <= LastSyncedAt)
               => CommitPool[i].sha \in Shas(commits)

\* C30: within one pass the existence check sees the rows staged earlier in
\* the pass. A sha that the listings of the pass return more than once (twice
\* in one listing, or from two repositories) is staged at most once, and the
\* pass does not fail on the unique constraint.
C30_StagedOnce ==
    /\ \A j, k \in DOMAIN session.staged :
          session.staged[j].commit_sha = session.staged[k].commit_sha => j = k
    /\ outcome.status # "integrity_error"

\* C31: sync never deletes. No step removes a stored repository or a stored
\* commit or changes which repository or commit a row stands for, so both
\* tables only grow; and a pass that succeeds has asked for the commits of
\* every stored repository of the user, whether the listing still names it
\* or not.
C31_NeverDeletes ==
    /\ [][/\ Len(repositories') >= Len(repositories)
          /\ \A i \in DOMAIN repositories :
                /\ repositories'[i].user_id = repositories[i].user_id
                /\ repositories'[i].repo_name = repositories[i].repo_name
          /\ Len(commits') >= Len(commits)
          /\ \A i \in DOMAIN commits :
                commits'[i].commit_sha = commits[i].commit_sha]_vars
    /\ [](PassEnded("ok") =>
            \A r \in DOMAIN repositories :
                repositories[r].user_id = session.user_id =>
                    \E q \in session.queries : q.repo_id = r)

\* a later pass has succeeded; a repository stored before it is gone from the
\* listing, is still stored, and was asked for its commits
C31_Witness ==
    /\ PassEnded("ok")
    /\ \E r \in DOMAIN before.repositories :
          /\ \A k \in DOMAIN github_repos :
                github_repos[k].name # repositories[r].repo_name
          /\ repositories[r].repo_name = before.repositories[r].repo_name
          /\ \E q \in session.queries : q.repo_id = r

-----------------------------------------------------------------------------
(* Properties of the configuration of a pass (SpecConfig) *)

NoCalls ==
    [get_repositories |-> 0, get_commits |-> 0, get_commit_details |-> 0]

\* C17: a pass that finds GITHUB_USERNAME or GITHUB_TOKEN unset ends with the
\* configuration error, having called GitHub not once and having created or
\* changed no row.
C17_ConfigErrorFirst ==
    [][(pc = "idle" /\ pc' # "idle"
          /\ (env.username = "" \/ env.token = <<>>)) =>
         /\ pc' = "done"
         /\ outcome'.status = "config_error"
         /\ session'.calls = NoCalls
         /\ request' = request
         /\ users' = users
         /\ repositories' = repositories
         /\ commits' = commits]_vars

\* C17 witness: the token is taken away from an account that has synced, and
\* the next pass ends with the configuration error.
C17_Witness ==
    /\ PassEnded("config_error")
    /\ env.token = <<>>
    /\ users # <<>>
    /\ repositories # <<>>

-----------------------------------------------------------------------------
(* Properties of _get_paginated (SpecPages) *)

\* C11: pagination correctness. When the server holds n records and no page
\* request fails, _get_paginated returns all n records, each once, in the
\* server's order; it asks for pages 1, 2, ... in increasing order and stops at
\* the first page that is empty or shorter than 100, after n \div 100 + 1
\* requests.
C11_Pagination ==
    /\ paging.requests = [k \in 1..Len(paging.requests) |-> k]
    /\ paging.status = "returned" =>
          /\ paging.items = [k \in 1..paging.n |-> k]
          /\ Len(paging.requests) = (paging.n \div 100) + 1

\* C11 witness: exactly one full page of records, for which a second, empty
\* page is asked.
C11_Witness ==
    /\ paging.status = "returned"
    /\ paging.n = 100
    /\ paging.requests = <<1, 2>>
    /\ Len(paging.items) = 100

\* C21: a paginated fetch never returns a part of the list. When the request
\* for a page, the first or a later one, fails for good, _get_paginated raises
\* and the caller gets none of the records of the pages received before; what
\* it returns is always the whole list.
C21_NoPartialResult ==
    /\ paging.status = "raised" => paging.items = <<>>
    /\ paging.status = "returned" => Len(paging.items) = paging.n
    /\ paging.status \in {"running", "returned", "raised"}

\* C21 witness: the first page of 100 records was received and the request for
\* the second page failed.
C21_Witness ==
    /\ paging.status = "raised"
    /\ paging.requests = <<1, 2>>
    /\ paging.n > 100

-----------------------------------------------------------------------------
(* Properties of GET /summary (SpecSummary) *)

\* the rows stored under the key a request for timeframe tf has right now
ExactKey(tf) ==
    {k \in DOMAIN summaries :
        /\ summaries[k].user_id = 1
        /\ summaries[k].timeframe = tf
        /\ summaries[k].end_date = now \div TicksPerDay
        /\ summaries[k].start_date
              = (now \div TicksPerDay) - (IF tf = "week" THEN 7 ELSE 30)}

\* C15: cache key exactness. Whatever the table holds, the lookup of a request
\* returns only a row whose user, timeframe, start date and end date are those
\* of the request; when no row has exactly that key the request is a miss.
C15_CacheKeyExact ==
    [][reply'.seq # reply.seq =>
         /\ reply'.cached =>
               /\ reply'.row \in ExactKey(reply'.timeframe)
               /\ reply'.summary = summaries[reply'.row].summary_text
         /\ (reply'.timeframe \in {"week", "month"}
                /\ ExactKey(reply'.timeframe) = {}) => ~reply'.cached]_vars

\* C15 witness: a request is answered from the cache while the table also
\* holds rows of another account, timeframe, start date or end date.
C15_Witness ==
    /\ reply.cached
    /\ Len(summaries) = 3
    /\ \E k \in DOMAIN summaries :
          k \notin ExactKey(reply.timeframe) /\ summaries[k].end_date = 0

\* C16: of several rows with the key of the request the lookup returns one with
\* the greatest generated_at; neither a lookup nor the insert of a new summary
\* deletes or overwrites a stored row.
C16_LatestDuplicate ==
    [][/\ Len(summaries') >= Len(summaries)
       /\ SubSeq(summaries', 1, Len(summaries)) = summaries
       /\ (reply'.seq # reply.seq /\ reply'.cached) =>
             /\ summaries' = summaries
             /\ \A k \in ExactKey(reply'.timeframe) :
                   summaries[k].generated_at <= reply'.generated_at
             /\ reply'.generated_at = summaries[reply'.row].generated_at]_vars

\* C16 witness: a hit on a key stored twice answers with the newer text, and
\* both rows are still there.
C16_Witness ==
    /\ reply.cached
    /\ reply.summary = "new"
    /\ \E j, k \in DOMAIN summaries :
          /\ summaries[j].summary_text = "new"
          /\ summaries[k].summary_text = "old"

-----------------------------------------------------------------------------
(* Properties of GET /summary beside POST /sync (SpecSummarySync) *)

\* C27: a summary request never changes what the sync keeps. Hit, miss or
\* failure of the summarizer: the user row with its last_synced_at, the
\* repositories and the commits are what they were; when the summarizer fails
\* no Summary row is stored either.
C27_SummaryFrame ==
    [][reply'.seq # reply.seq =>
         /\ users' = users
         /\ repositories' = repositories
         /\ commits' = commits
         /\ (reply'.status # 200 => summaries' = summaries)]_vars

\* C27 witness: the summarizer failed for an account with stored commits and a
\* watermark, and no summary is stored.
C27_Witness ==
    /\ reply.status = 502
    /\ reply.ai_calls = 1
    /\ commits # <<>>
    /\ LastSyncedAt # Null
    /\ summaries = <<>>

\* C28: on a hit the commit count answered is taken from the commits stored
\* now for the window of the request, not from those stored when the summary
\* was generated: commits a sync has inserted since are counted, while the text
\* is the stored text.
C28_FreshCount ==
    [][(reply'.seq # reply.seq /\ reply'.cached) =>
         /\ reply'.commit_count =
               Cardinality({k \in DOMAIN commits :
                   /\ repositories[commits[k].repository_id].user_id = 1
                   /\ commits[k].author_date >=
                         now - TicksPerDay
                                 * (IF reply'.timeframe = "week" THEN 7 ELSE 30)})
         /\ reply'.summary = summaries[reply'.row].summary_text]_vars

\* C28 witness: the week's summary was generated while no commit was stored;
\* a pass then inserted two commits, one of them within the week, and the hit
\* answers the stored sentence with a count of 1.
C28_Witness ==
    /\ reply.cached
    /\ reply.timeframe = "week"
    /\ reply.summary = "No commits found"
    /\ reply.commit_count = 1
    /\ Len(commits) = 2

-----------------------------------------------------------------------------
(* Properties of two passes at once (SpecConcurrent) *)

\* C19: two passes for one account that run at once are unsafe. Both can find
\* the same repository name absent and both insert a row for it. Where the
\* table starts without duplicates and the listing repeats no name, two rows of
\* one name are always the work of two workers, the later of which read the
\* table before the earlier one's row was committed; a sha both have staged is
\* inserted once, the unique constraint failing the second flush.
C19_DuplicatesFromRace ==
    /\ \A i, j \in DOMAIN repositories :
          (i < j /\ repositories[i].user_id = repositories[j].user_id
                 /\ repositories[i].repo_name = repositories[j].repo_name) =>
             \E v, w \in Workers :
                /\ v # w
                /\ i \in workers[v].inserted
                /\ j \in workers[w].inserted
                /\ workers[w].seen < i
    /\ \A i, j \in DOMAIN commits :
          commits[i].commit_sha = commits[j].commit_sha => i = j

\* C19 witness: both workers found repository "a" absent, both inserted a row
\* for it, and the table holds the name twice.
C19_Witness ==
    /\ \A w \in Workers : workers[w].pc \in {"done", "failed"}
    /\ \E i \in workers[1].inserted, j \in workers[2].inserted :
          /\ repositories[i].repo_name = "a"
          /\ repositories[j].repo_name = "a"
          /\ workers[1].seen < j /\ workers[2].seen < i

-----------------------------------------------------------------------------
(* Termination of a pass (SpecTerminate) *)

\* C32: every pass terminates. Whatever the requests of a pass meet, a pass
\* that has started ends, in success with the watermark written or in failure;
\* every call of _make_request ends, having sent at most max_retries requests;
\* every _get_paginated ends, and when it returns, the last page it asked for
\* was the first one that came back short or empty.
C32_PassTerminates ==
    /\ (pc \notin {"idle", "done"}) ~> (pc = "done")
    /\ (request.status = "running") ~> (request.status \in {"returned", "raised"})
    /\ (paging.status = "running") ~> (paging.status \in {"returned", "raised"})
    /\ [](request.sent <= max_retries)
    /\ [](paging.status = "returned" =>
            /\ paging.requests = [k \in 1..Len(paging.requests) |-> k]
            /\ \A k \in DOMAIN paging.requests :
                  (Len(ServerPage(paging.n, k)) < per_page)
                      <=> (k = Len(paging.requests)))
    /\ [](pc = "done" =>
            /\ outcome.status \in {"ok", "fetch_error", "integrity_error"}
            /\ outcome.status = "ok" =>
                  users[session.user_id].last_synced_at = now)

\* a pass has succeeded whose last list call took three pages and whose last
\* request went through on its third attempt
C32_Witness ==
    /\ PassEnded("ok")
    /\ users[session.user_id].last_synced_at = now
    /\ paging.requests = <<1, 2, 3>>
    /\ request.status = "returned"
    /\ request.sent = max_retries

====
